---- MODULE Spec2Model ----
(***************************************************************************)
(* WarpConfGen (src/main.py): the sliding-window rate limiter middleware,  *)
(* the concurrent endpoint scanners (smart_scan, scan_all_working) and the *)
(* /api/generate and /api/scan handlers, as one state machine.             *)
(*                                                                         *)
(* Every request runs in a slot r \in Threads; pc[r] is the statement the  *)
(* request is at.  Time is the integer number of seconds that time.time()  *)
(* returns.                                                                *)
(***************************************************************************)
EXTENDS Integers, Sequences, FiniteSets, TLC

(***************************************************************************)
(* Program constants.                                                      *)
(***************************************************************************)
\* main.py:48
RATE_LIMIT_WINDOW_SECONDS == 60
\* main.py:172, the literal in `if len(bucket) >= 15`
RateLimit == 15

(***************************************************************************)
(* Bounds of the model.                                                    *)
(***************************************************************************)
\* the clock stops advancing at MaxTime
MaxTime == 60
\* request slots that run concurrently
NumThreads == 2
\* the clock of the specification with the history stops advancing here
MaxTimeRace == 120

\* how many entries of KNOWN_WARP_IPS (8 in main.py:23-27) the model keeps
NumKnown == 4
\* get_random_warp_ips(25) of smart_scan draws this many addresses
SmartSampleCount == 1
\* get_random_warp_ips(30) of scan_all_working draws this many addresses
AllSampleCount == 0
\* max_workers of smart_scan's executor (10 in main.py:72)
SmartWorkers == 2
\* max_workers of scan_all_working's executor (15 in main.py:88)
AllWorkers == 2
\* api_generate requests are taken while total_generations is below this
MaxGenerations == 1

Threads == 1..NumThreads
\* the amounts by which the clock advances between two statements
Ticks == {30, 60}
\* peer addresses of the clients (request.client.host)
Hosts == {"A", "B"}
\* x-forwarded-for header values, as the list of its comma separated entries;
\* <<>> is a request without the header
Forwardeds == {<<>>, <<"B", "A">>}
\* request paths
LimiterPaths == {"/", "/generate", "/favicon.ico"}
\* ports of the API requests: the default and one outside 0..65535
Ports == {500, 70000}
NoTime == -1
NoKey == ""
NoPath == ""
\* no response produced yet
\* headers: the header lines a handler sets itself, as <<name, value>> pairs
\* payload: the JSON value of an API answer, as a list of strings
\* msg: the text of an error answer
NoResp == [status |-> 0, body |-> "", headers |-> {}, payload |-> <<>>, msg |-> ""]

VARIABLES
    clock,      \* time.time()
    lock,       \* _rate_limit_lock: 0 when free, else the slot holding it
    buckets,    \* _rate_limit_buckets: identity key -> deque of timestamps
    pc,         \* per slot: the statement the request is at
    path,       \* per slot: request.url.path
    client_ip,  \* per slot: local client_ip of rate_limit
    now,        \* per slot: local now of rate_limit
    resp,       \* per slot: the response returned to the client
    mode,       \* per slot: form field mode of api_generate
    selected_ip,\* per slot: form field selected_ip
    custom_ip,  \* per slot: form field custom_ip
    port,       \* per slot: port of api_generate / api_scan
    target_ip,  \* per slot: local target_ip of api_generate
    candidates, \* per slot: local candidates of the running scan
    futures,    \* per slot: the futures of the scan's executor, in submit order
    best_ip,    \* per slot: local best_ip of smart_scan
    working,    \* per slot: local working of scan_all_working
    stats,      \* the content of STATS_FILE
    registrations, \* per slot: the outcomes of the registration requests that
                \* generate_warp of this request sent to the Cloudflare API
    admitted    \* history: for each identity key the timestamps of the requests
                \* that the limiter admitted, in ascending order;
                \* kept only in the specifications that start with the log on
VARIABLE
    probe       \* one call of probe_udp, statement by statement
VARIABLE
    stats_call  \* increment_stats statement by statement: lock is _stats_lock
                \* (0 when free, else the slot holding it), loaded the local
                \* stats of each slot, calls the number of calls that returned

apiVars == <<mode, selected_ip, custom_ip, port, target_ip>>
scanVars == <<candidates, futures, best_ip, working>>
vars == <<clock, lock, buckets, pc, path, client_ip, now, resp, apiVars, scanVars, stats,
          registrations, admitted, probe, stats_call>>

(***************************************************************************)
(* get_client_ip                                                           *)
(***************************************************************************)
\* forwarded.split(",")[0].strip() when the header is present and non-empty,
\* else request.client.host, else "unknown"
get_client_ip(fwd, host) ==
    IF fwd # <<>> THEN fwd[1]
    ELSE IF host # NoKey THEN host ELSE "unknown"

IdentityKeys == Hosts \cup {f[1] : f \in Forwardeds \ {<<>>}}

(***************************************************************************)
(* rate_limit                                                              *)
(***************************************************************************)
\* `if request.url.path not in ["/", "/generate"]` is false
IsLimitedPath(p) == p \in {"/", "/generate"}

\* the mutated purge keeps an entry that is exactly one window old
RECURSIVE PurgeStrict(_, _)
PurgeStrict(bucket, t) ==
    IF bucket # <<>> /\ Head(bucket) < t - RATE_LIMIT_WINDOW_SECONDS
    THEN PurgeStrict(Tail(bucket), t)
    ELSE bucket

\* while bucket and bucket[0] <= now - RATE_LIMIT_WINDOW_SECONDS: bucket.popleft()
RECURSIVE Purge(_, _)
Purge(bucket, t) ==
    IF bucket # <<>> /\ Head(bucket) <= t - RATE_LIMIT_WINDOW_SECONDS
    THEN Purge(Tail(bucket), t)
    ELSE bucket

\* a lock that excludes nobody
LockIgnored == TRUE

\* `with _rate_limit_lock:` can be entered
LockFree == lock = 0

\* every client shares one bucket
BucketKeyShared(r) == "A"

\* bucket = _rate_limit_buckets[client_ip]
BucketKey(r) == client_ip[r]

\* the bucket that a request of identity key k to path p counts against: the
\* lookup uses the key alone
BucketOf(k, p) == buckets[k]

\* the limit that applies to a request to path p: one literal for all
LimitOf(p) == RateLimit

\* if len(bucket) >= 15
OverLimit(bucket) == Len(bucket) >= RateLimit

\* PlainTextResponse("Too many requests", status_code=429)
TooManyRequests == [status |-> 429, body |-> "Too many requests", headers |-> {},
                    payload |-> <<>>, msg |-> ""]

\* A request arrives.  A path outside the limited ones goes straight to
\* call_next; otherwise the identity key and the time are read.
Receive(r, p, fwd, host) ==
    /\ pc[r] = "idle"
    /\ path' = [path EXCEPT ![r] = p]
    /\ IF ~IsLimitedPath(p)
       THEN /\ pc' = [pc EXCEPT ![r] = "call_next"]
            /\ UNCHANGED <<client_ip, now>>
       ELSE /\ client_ip' = [client_ip EXCEPT ![r] = get_client_ip(fwd, host)]
            /\ now' = [now EXCEPT ![r] = clock]
            /\ pc' = [pc EXCEPT ![r] = "wait_lock"]
    /\ UNCHANGED <<clock, lock, buckets, resp, apiVars, scanVars, stats, registrations, admitted, probe, stats_call>>

\* with _rate_limit_lock: the lock is taken and the expired front is purged
Acquire(r) ==
    /\ pc[r] = "wait_lock"
    /\ LockFree
    /\ lock' = r
    /\ buckets' = [buckets EXCEPT ![BucketKey(r)] = Purge(@, now[r])]
    /\ pc' = [pc EXCEPT ![r] = "check"]
    /\ UNCHANGED <<clock, path, client_ip, now, resp, apiVars, scanVars, stats, registrations, admitted, probe, stats_call>>

\* a rejected request is counted too: its timestamp takes the place of the
\* oldest one
CheckCountsRejected(r) ==
    /\ pc[r] = "check"
    /\ IF OverLimit(buckets[BucketKey(r)])
       THEN /\ resp' = [resp EXCEPT ![r] = TooManyRequests]
            /\ pc' = [pc EXCEPT ![r] = "responded"]
            /\ lock' = 0
            /\ buckets' = [buckets EXCEPT ![BucketKey(r)] = Append(Tail(@), now[r])]
       ELSE /\ pc' = [pc EXCEPT ![r] = "append"]
            /\ UNCHANGED <<resp, lock, buckets>>
    /\ UNCHANGED <<clock, path, client_ip, now, apiVars, scanVars, stats, registrations,
                   admitted, probe, stats_call>>

\* if len(bucket) >= 15: return 429 (leaving the with block frees the lock)
Check(r) ==
    /\ pc[r] = "check"
    /\ IF OverLimit(buckets[BucketKey(r)])   \* 15 is LimitOf(path[r])
       THEN /\ resp' = [resp EXCEPT ![r] = TooManyRequests]
            /\ pc' = [pc EXCEPT ![r] = "responded"]
            /\ lock' = 0
       ELSE /\ pc' = [pc EXCEPT ![r] = "append"]
            /\ UNCHANGED <<resp, lock>>
    /\ UNCHANGED <<clock, buckets, path, client_ip, now, apiVars, scanVars, stats, registrations, admitted, probe, stats_call>>

\* the sorted sequence log with t put in its place
RECURSIVE Noted(_, _)
Noted(log, t) ==
    IF log = <<>> \/ t <= Head(log) THEN <<t>> \o log
    ELSE <<Head(log)>> \o Noted(Tail(log), t)

\* bucket.append(now), the with block ends; the request is admitted, which
\* the history notes under the key of the request
AppendNow(r) ==
    /\ pc[r] = "append"
    /\ buckets' = [buckets EXCEPT ![BucketKey(r)] = Append(@, now[r])]
    /\ lock' = 0
    /\ pc' = [pc EXCEPT ![r] = "call_next"]
    /\ admitted' = IF admitted.on
                   THEN [admitted EXCEPT !.log[client_ip[r]] = Noted(@, now[r])]
                   ELSE admitted
    /\ UNCHANGED <<clock, path, client_ip, now, resp, apiVars, scanVars, stats, registrations, probe, stats_call>>

(***************************************************************************)
(* The routes behind call_next.                                            *)
(***************************************************************************)
\* index(): get_html() rendered; the page itself is not modelled
IndexPage == [status |-> 200, body |-> "html", headers |-> {}, payload |-> <<>>, msg |-> ""]
\* no route matches
NotFound == [status |-> 404, body |-> "Not Found", headers |-> {}, payload |-> <<>>, msg |-> ""]

\* call_next for "/" and for paths without a route
Dispatch(r) ==
    /\ pc[r] = "call_next"
    /\ path[r] \notin {"/api/generate", "/api/scan"}
    /\ resp' = [resp EXCEPT ![r] = IF path[r] = "/" THEN IndexPage ELSE NotFound]
    /\ pc' = [pc EXCEPT ![r] = "responded"]
    /\ UNCHANGED <<clock, lock, buckets, path, client_ip, now, apiVars, scanVars, stats, registrations, admitted, probe, stats_call>>

(***************************************************************************)
(* Addresses and strings.  A string is a sequence of tokens; a token is a  *)
(* pair of integers: <<c, o>> with c in 1..7 is the address at offset o of *)
(* WARP_CIDRS[c], <<0, o>> is an address outside those blocks, SP is       *)
(* white space and BAD is text that is no address.                         *)
(***************************************************************************)
SP == <<-1, 0>>
BAD == <<-2, 0>>
\* the string of the address at offset o of block c
Addr(c, o) == << <<c, o>> >>
\* no value / the empty string
NoIp == <<>>

\* WARP_CIDRS: seven /24 blocks, each with num_addresses = 256
NumCidrs == 7
NumAddresses == 256

\* KNOWN_WARP_IPS: 162.159.192.1-3, 162.159.193.1-3, 188.114.96.1, 188.114.97.1
AllKnown == << Addr(1, 1), Addr(1, 2), Addr(1, 3), Addr(2, 1), Addr(2, 2),
               Addr(2, 3), Addr(4, 1), Addr(5, 1) >>
KNOWN_WARP_IPS == SubSeq(AllKnown, 1, NumKnown)

\* the (block, offset) pairs the sampler's random draws take in the model:
\* the lowest offset of the first block, which is also a known address, and
\* the highest offset of a block without known addresses
SampleDraws == {<<1, 1>>, <<3, NumAddresses - 2>>}

\* the offset is drawn from the whole block: randint(0, num_addresses - 1)
SampleAnyOffset(count) ==
    [1..count -> {Addr(d[1], d[2]) :
                     d \in {<<1, 0>>, <<3, NumAddresses - 1>>}}]

\* get_random_warp_ips(count): count draws of a block and of
\* random.randint(1, net.num_addresses - 2)
get_random_warp_ips(count) ==
    [1..count -> {Addr(d[1], d[2]) :
                     d \in SampleDraws \cap ((1..NumCidrs) \X (1..(NumAddresses - 2)))}]

(***************************************************************************)
(* probe_udp                                                               *)
(***************************************************************************)
\* The values probe_udp can return: connect raises OverflowError for a port
\* outside 0..65535, which the except clause turns into False; otherwise the
\* send succeeds or fails with the network.
probe_udp(ip, p) == IF p \in 0..65535 THEN BOOLEAN ELSE {FALSE}

(***************************************************************************)
(* smart_scan and scan_all_working.  pc[r] is "smart_scan" or "scan_all"   *)
(* on entry; the scan then goes through "submit" (the dict comprehension   *)
(* of executor.submit calls), "as_completed" (the for loop) and "shutdown" *)
(* (the end of the with block, executor.shutdown(wait=True)).              *)
(***************************************************************************)
\* the scan that slot r runs, by the route of its request
IsSmart(r) == path[r] = "/api/generate"

\* the pool starts a thread for every work item
MaxWorkersUnbounded(r) == Len(candidates[r])

\* ThreadPoolExecutor(max_workers=...)
MaxWorkers(r) == IF IsSmart(r) THEN SmartWorkers ELSE AllWorkers

Pending(r) == {i \in 1..Len(futures[r]) : futures[r][i].state = "pending"}
Running(r) == {i \in 1..Len(futures[r]) : futures[r][i].state = "running"}
Finished(r) == {i \in 1..Len(futures[r]) : futures[r][i].state = "finished"}
Min(S) == CHOOSE x \in S : \A y \in S : x <= y

\* the slice is taken from the wrong end: KNOWN_WARP_IPS[3:]
SmartStaticTail == SubSeq(KNOWN_WARP_IPS, 4, Len(KNOWN_WARP_IPS))

\* the known addresses smart_scan puts first: KNOWN_WARP_IPS[:3]
SmartStatic == SubSeq(KNOWN_WARP_IPS, 1, 3)

\* candidates = KNOWN_WARP_IPS[:3] + get_random_warp_ips(25); best_ip = None
SmartScanBegin(r, sample) ==
    /\ pc[r] = "smart_scan"
    /\ candidates' = [candidates EXCEPT ![r] = SmartStatic \o sample]
    /\ best_ip' = [best_ip EXCEPT ![r] = NoIp]
    /\ futures' = [futures EXCEPT ![r] = <<>>]
    /\ pc' = [pc EXCEPT ![r] = "submit"]
    /\ UNCHANGED <<clock, lock, buckets, path, client_ip, now, resp, apiVars,
                   working, stats, registrations, admitted, probe, stats_call>>

\* candidates = KNOWN_WARP_IPS + get_random_warp_ips(30); working = []
ScanAllBegin(r, sample) ==
    /\ pc[r] = "scan_all"
    /\ candidates' = [candidates EXCEPT ![r] = KNOWN_WARP_IPS \o sample]
    /\ working' = [working EXCEPT ![r] = <<>>]
    /\ futures' = [futures EXCEPT ![r] = <<>>]
    /\ pc' = [pc EXCEPT ![r] = "submit"]
    /\ UNCHANGED <<clock, lock, buckets, path, client_ip, now, resp, apiVars,
                   best_ip, stats, registrations, admitted, probe, stats_call>>

\* executor.submit(probe_udp, ip, port, timeout) for the next candidate; after
\* the last one the for loop over as_completed starts
Submit(r) ==
    /\ pc[r] = "submit"
    /\ futures' = [futures EXCEPT ![r] =
           Append(@, [state |-> "pending", result |-> FALSE, yielded |-> FALSE])]
    /\ pc' = [pc EXCEPT ![r] =
           IF Len(futures[r]) + 1 = Len(candidates[r]) THEN "as_completed" ELSE "submit"]
    /\ UNCHANGED <<clock, lock, buckets, path, client_ip, now, resp, apiVars,
                   candidates, best_ip, working, stats, registrations, admitted, probe, stats_call>>

\* a worker thread of the pool takes the oldest queued work item
StartProbe(r) ==
    /\ Pending(r) # {}
    /\ Cardinality(Running(r)) < MaxWorkers(r)
    /\ futures' = [futures EXCEPT ![r][Min(Pending(r))].state = "running"]
    /\ UNCHANGED <<clock, lock, buckets, pc, path, client_ip, now, resp, apiVars,
                   candidates, best_ip, working, stats, registrations, admitted, probe, stats_call>>

\* probe_udp returns in a worker thread and the future is set
FinishProbe(r, i, ok) ==
    /\ i \in Running(r)
    /\ ok \in probe_udp(candidates[r][i], port[r])
    /\ futures' = [futures EXCEPT ![r][i].state = "finished", ![r][i].result = ok]
    /\ UNCHANGED <<clock, lock, buckets, pc, path, client_ip, now, resp, apiVars,
                   candidates, best_ip, working, stats, registrations, admitted, probe, stats_call>>

\* the loop body ignores what the probe returned
ResultIgnored(f) == TRUE

\* if future.result():
ResultTruthy(f) == f.result

\* the loop keeps the first success only
CollectFirstOnly(w, hit, ip) == IF hit /\ w = <<>> THEN <<ip>> ELSE w

\* scan_all_working: if future.result(): working.append(ip)
Collect(w, hit, ip) == IF hit THEN Append(w, ip) ELSE w

\* One iteration of `for future in as_completed(future_to_ip)`: as_completed
\* hands out a finished future not handed out before, in no fixed order.
\* smart_scan breaks on the first truthy result; the loop also ends when
\* every future has been handed out.
NextCompleted(r, i) ==
    /\ pc[r] = "as_completed"
    /\ i \in Finished(r)
    /\ ~futures[r][i].yielded
    /\ futures' = [futures EXCEPT ![r][i].yielded = TRUE]
    /\ LET hit == ResultTruthy(futures[r][i])
           last == \A j \in 1..Len(futures[r]) : j # i => futures[r][j].yielded
       IN  IF IsSmart(r)
           THEN /\ best_ip' = [best_ip EXCEPT ![r] =
                                  IF hit THEN candidates[r][i] ELSE @]
                /\ pc' = [pc EXCEPT ![r] =
                             IF hit \/ last THEN "shutdown" ELSE "as_completed"]
                /\ UNCHANGED working
           ELSE /\ working' = [working EXCEPT ![r] =
                                  Collect(@, hit, candidates[r][i])]
                /\ pc' = [pc EXCEPT ![r] =
                             IF last THEN "shutdown" ELSE "as_completed"]
                /\ UNCHANGED best_ip
    /\ UNCHANGED <<clock, lock, buckets, path, client_ip, now, resp, apiVars,
                   candidates, stats, registrations, admitted, probe, stats_call>>

\* the with block is left without waiting for the workers
ShutdownNoWait(r) == TRUE

\* shutdown returns only when the loop has taken every future
ShutdownAwaitsLoop(r) == \A i \in 1..Len(futures[r]) : futures[r][i].yielded

\* executor.shutdown(wait=True) at the end of the with block returns: every
\* work item has run and every worker thread has been joined
ShutdownDone(r) == Pending(r) = {} /\ Running(r) = {}

\* smart_scan returns None when no probe succeeded
NoFallback(best) == best

\* return best_ip or KNOWN_WARP_IPS[0]
SmartResult(best) == IF best # NoIp THEN best ELSE KNOWN_WARP_IPS[1]

\* smart_scan returns into api_generate: target_ip = smart_scan(port=port)
SmartScanReturn(r) ==
    /\ pc[r] = "shutdown"
    /\ IsSmart(r)
    /\ ShutdownDone(r)
    /\ target_ip' = [target_ip EXCEPT ![r] = SmartResult(best_ip[r])]
    /\ pc' = [pc EXCEPT ![r] = "generate_warp"]
    /\ UNCHANGED <<clock, lock, buckets, path, client_ip, now, resp, mode,
                   selected_ip, custom_ip, port, scanVars, stats, registrations, admitted, probe, stats_call>>

\* scan_all_working returns into api_scan: return {"ips": ips}
ScanAllReturn(r) ==
    /\ pc[r] = "shutdown"
    /\ ~IsSmart(r)
    /\ ShutdownDone(r)
    /\ resp' = [resp EXCEPT ![r] =
           [status |-> 200, body |-> "ips", headers |-> {}, payload |-> working[r],
            msg |-> ""]]
    /\ pc' = [pc EXCEPT ![r] = "responded"]
    /\ UNCHANGED <<clock, lock, buckets, path, client_ip, now, apiVars, scanVars,
                   stats, registrations, admitted, probe, stats_call>>

(***************************************************************************)
(* api_scan, api_generate, generate_warp, increment_stats                  *)
(***************************************************************************)
\* s.strip()
RECURSIVE LStrip(_)
LStrip(s) == IF s # <<>> /\ Head(s) = SP THEN LStrip(Tail(s)) ELSE s
RECURSIVE RStrip(_)
RStrip(s) == IF s # <<>> /\ s[Len(s)] = SP THEN RStrip(SubSeq(s, 1, Len(s) - 1)) ELSE s
Strip(s) == RStrip(LStrip(s))

\* the literal is not parsed at all
AnyAddress(s) == TRUE

\* ipaddress.ip_address(s) returns instead of raising ValueError
ValidAddress(s) ==
    /\ Len(s) = 1
    /\ s[1][1] \in 0..NumCidrs
    /\ s[1][2] \in 0..(NumAddresses - 1)

\* the form fields the model submits to /api/generate
GenerateForms ==
    [mode : {"auto", "smart"}, selected_ip : {NoIp}, custom_ip : {NoIp}, port : Ports]
    \cup [mode : {"select"}, selected_ip : {NoIp, Addr(1, 2), Addr(0, 9), <<BAD>>},
          custom_ip : {NoIp}, port : Ports]
    \cup [mode : {"custom", "manual"}, selected_ip : {NoIp},
          custom_ip : {NoIp, <<SP>>, <<SP, <<0, 9>>, SP>>, <<BAD>>}, port : Ports]

\* the error answer lists the addresses the scan tried
ErrorWithCandidates(text, about) ==
    [status |-> 200, body |-> "error", headers |-> {}, payload |-> about \o candidates[1],
     msg |-> text]

\* return {"error": ...}: about holds the request text that str(e) quotes
ErrorResponse(text, about) ==
    [status |-> 200, body |-> "error", headers |-> {}, payload |-> about, msg |-> text]

\* call_next reaches api_scan(port): ips = scan_all_working(port=port)
ApiScanBegin(r, p) ==
    /\ pc[r] = "call_next"
    /\ path[r] = "/api/scan"
    /\ port' = [port EXCEPT ![r] = p]
    /\ pc' = [pc EXCEPT ![r] = "scan_all"]
    /\ UNCHANGED <<clock, lock, buckets, path, client_ip, now, resp, mode,
                   selected_ip, custom_ip, target_ip, scanVars, stats, registrations, admitted, probe, stats_call>>

\* mode auto takes the last address of the list
AutoTargetLast == KNOWN_WARP_IPS[Len(KNOWN_WARP_IPS)]

\* if mode == "auto": target_ip = KNOWN_WARP_IPS[0]
AutoTarget == KNOWN_WARP_IPS[1]

\* the addresses the page offers for mode select: one <option> for each ip
\* in KNOWN_WARP_IPS
Offered == {KNOWN_WARP_IPS[i] : i \in 1..Len(KNOWN_WARP_IPS)}

\* a mode the chain does not name takes the first branch
BranchUnknownAsAuto(m) == IF m \in {"smart", "select", "custom"} THEN m ELSE "auto"

\* the branch of the if/elif/else chain that mode m takes: the else branch
\* handles the custom address
Branch(m) == IF m \in {"auto", "smart", "select"} THEN m ELSE "custom"

\* call_next reaches api_generate: the form is bound and the mode decides
\* target_ip; the custom branch returns or raises before generate_warp
ApiGenerateBegin(r, form) ==
    /\ pc[r] = "call_next"
    /\ path[r] = "/api/generate"
    /\ stats.total < MaxGenerations
    /\ mode' = [mode EXCEPT ![r] = form.mode]
    /\ selected_ip' = [selected_ip EXCEPT ![r] = form.selected_ip]
    /\ custom_ip' = [custom_ip EXCEPT ![r] = form.custom_ip]
    /\ port' = [port EXCEPT ![r] = form.port]
    /\ CASE Branch(form.mode) = "auto" ->
              /\ target_ip' = [target_ip EXCEPT ![r] = AutoTarget]
              /\ pc' = [pc EXCEPT ![r] = "generate_warp"]
              /\ UNCHANGED resp
         [] Branch(form.mode) = "smart" ->
              /\ pc' = [pc EXCEPT ![r] = "smart_scan"]
              /\ UNCHANGED <<target_ip, resp>>
         [] Branch(form.mode) = "select" ->
              /\ target_ip' = [target_ip EXCEPT ![r] =
                     IF form.selected_ip # NoIp THEN form.selected_ip
                     ELSE KNOWN_WARP_IPS[1]]
              /\ pc' = [pc EXCEPT ![r] = "generate_warp"]
              /\ UNCHANGED resp
         [] OTHER ->
              /\ target_ip' = [target_ip EXCEPT ![r] = Strip(form.custom_ip)]
              /\ IF Strip(form.custom_ip) = NoIp
                 THEN /\ resp' = [resp EXCEPT ![r] =
                             ErrorResponse("Custom IP required", <<>>)]
                      /\ pc' = [pc EXCEPT ![r] = "responded"]
                 ELSE IF ~ValidAddress(Strip(form.custom_ip))
                 THEN /\ resp' = [resp EXCEPT ![r] =
                             ErrorResponse("does not appear to be an IPv4 or IPv6 address",
                                           <<Strip(form.custom_ip)>>)]
                      /\ pc' = [pc EXCEPT ![r] = "responded"]
                 ELSE /\ pc' = [pc EXCEPT ![r] = "generate_warp"]
                      /\ UNCHANGED resp
    /\ UNCHANGED <<clock, lock, buckets, path, client_ip, now, scanVars, stats, registrations, admitted, probe, stats_call>>

\* the registration failed and the handler goes on as if it had not
IssuerFailureIgnored(ok) == "increment_stats"

\* where api_generate continues after generate_warp: resp.raise_for_status()
\* or the request itself raises, and the except clause of api_generate is next
AfterIssuer(ok) == IF ok THEN "increment_stats" ELSE "responded"

\* result = generate_warp(target_ip, port): the registration request to the
\* Cloudflare API succeeds (ok) or raises, and then the except clause of
\* api_generate answers {"error": str(e)}
GenerateWarp(r, ok) ==
    /\ pc[r] = "generate_warp"
    /\ registrations' = [registrations EXCEPT ![r] = Append(@, ok)]
    /\ pc' = [pc EXCEPT ![r] = AfterIssuer(ok)]
    /\ resp' = [resp EXCEPT ![r] =
           IF ok THEN @ ELSE ErrorResponse("registration failed", <<>>)]
    /\ UNCHANGED <<clock, lock, buckets, path, client_ip, now, apiVars, scanVars,
                   stats, admitted, probe, stats_call>>

(***************************************************************************)
(* The stats file.  Its content is "missing" (no file), "invalid" (it      *)
(* cannot be read or is not JSON), "array" (JSON, but a list and not an    *)
(* object) or "object" (a JSON object whose total_generations is total).   *)
(***************************************************************************)
StatsObject(n) == [kind |-> "object", total |-> n]
NoStatsFile == [kind |-> "missing", total |-> 0]
\* the contents the file can have when the server starts
StatsFiles == {NoStatsFile, [kind |-> "invalid", total |-> 0],
               [kind |-> "array", total |-> 0], StatsObject(0)}

\* _load_stats(): json.load(f) of an existing file; the defaults when there
\* is no file or when reading or parsing raises
load_stats(file) ==
    IF file.kind \in {"object", "array"} THEN file ELSE StatsObject(0)

\* stats["total_generations"] = stats.get("total_generations", 0) + 1 raises
\* AttributeError when the loaded value is a list
IncrementRaises(loaded) == loaded.kind # "object"

\* _save_stats(stats): the file is rewritten, unless open or dump raises
save_stats(file, value, writable) == IF writable THEN value ELSE file

\* increment_stats() under _stats_lock, then `return result`, whose endpoint
\* is f"{ip}:{port}"; an exception of increment_stats is caught by the except
\* clause of api_generate.  The POST to Supabase touches nothing here and
\* its exceptions are swallowed.
IncrementStats(r, writable) ==
    /\ pc[r] = "increment_stats"
    /\ LET loaded == load_stats(stats)
       IN  IF IncrementRaises(loaded)
           THEN /\ resp' = [resp EXCEPT ![r] =
                       ErrorResponse("'list' object has no attribute 'get'", <<>>)]
                /\ UNCHANGED stats
           ELSE /\ stats' = save_stats(stats, StatsObject(loaded.total + 1), writable)
                /\ resp' = [resp EXCEPT ![r] =
                       [status |-> 200, body |-> "conf", headers |-> {},
                        payload |-> <<target_ip[r]>>, msg |-> ""]]
    /\ pc' = [pc EXCEPT ![r] = "responded"]
    /\ UNCHANGED <<clock, lock, buckets, path, client_ip, now, apiVars, scanVars,
                   registrations, admitted, probe, stats_call>>

(***************************************************************************)
(* increment_stats, statement by statement, for concurrent requests        *)
(***************************************************************************)
\* a lock that excludes nobody
StatsLockIgnored == TRUE

\* `with _stats_lock:` can be entered
StatsLockFree == stats_call.lock = 0

\* with _stats_lock: stats = _load_stats()
StatsLoad(r) ==
    /\ pc[r] = "increment_stats"
    /\ StatsLockFree
    /\ stats_call' = [stats_call EXCEPT !.lock = r, !.loaded[r] = load_stats(stats)]
    /\ pc' = [pc EXCEPT ![r] = "save_stats"]
    /\ UNCHANGED <<clock, lock, buckets, path, client_ip, now, resp, apiVars, scanVars,
                   stats, registrations, admitted, probe>>

\* stats["total_generations"] = stats.get("total_generations", 0) + 1;
\* _save_stats(stats); the lock is released and api_generate returns result,
\* or the first statement raises and the except clause of api_generate answers
StatsSave(r) ==
    /\ pc[r] = "save_stats"
    /\ IF IncrementRaises(stats_call.loaded[r])
       THEN /\ stats_call' = [stats_call EXCEPT !.lock = 0]
            /\ resp' = [resp EXCEPT ![r] =
                   ErrorResponse("'list' object has no attribute 'get'", <<>>)]
            /\ UNCHANGED stats
       ELSE /\ stats' = save_stats(stats, StatsObject(stats_call.loaded[r].total + 1),
                                   TRUE)
            /\ stats_call' = [stats_call EXCEPT !.lock = 0, !.calls = @ + 1]
            /\ resp' = [resp EXCEPT ![r] =
                   [status |-> 200, body |-> "conf", headers |-> {},
                    payload |-> <<target_ip[r]>>, msg |-> ""]]
    /\ pc' = [pc EXCEPT ![r] = "responded"]
    /\ UNCHANGED <<clock, lock, buckets, path, client_ip, now, apiVars, scanVars,
                   registrations, admitted, probe>>

(***************************************************************************)
(* probe_udp, statement by statement                                       *)
(***************************************************************************)
\* One call of probe_udp taken apart.  probe.pc is the statement reached,
\* probe.sock the state of the socket the call opened, probe.exc the
\* exception on its way out of the try block, probe.done the calls that
\* returned normally, probe.result what probe_udp returned and probe.raised
\* whether an exception left probe_udp.
NoProbe == [pc |-> "idle", ip |-> NoIp, port |-> 0, timeout |-> 0, sock |-> "none",
            exc |-> "", done |-> {}, result |-> "", raised |-> FALSE]

\* the arguments the model calls probe_udp with
ProbeIps == {Addr(1, 1), <<BAD>>, NoIp}
ProbePorts == {-1, 0, 500, 65535, 65536}
ProbeTimeouts == {-1, 1}

\* the scanners call probe_udp(ip, port, timeout)
ProbeCall(ip, p, timeout) ==
    /\ probe.pc = "idle"
    /\ probe' = [NoProbe EXCEPT !.pc = "socket", !.ip = ip, !.port = p,
                                !.timeout = timeout]
    /\ UNCHANGED <<clock, lock, buckets, pc, path, client_ip, now, resp, apiVars,
                   scanVars, stats, registrations, admitted, stats_call>>

\* socket.socket(AF_INET, SOCK_DGRAM): a descriptor, or OSError
ProbeSocket(ok) ==
    /\ probe.pc = "socket"
    /\ probe' = IF ok
                THEN [probe EXCEPT !.pc = "settimeout", !.sock = "open",
                                   !.done = @ \cup {"socket"}]
                ELSE [probe EXCEPT !.pc = "except", !.exc = "OSError"]
    /\ UNCHANGED <<clock, lock, buckets, pc, path, client_ip, now, resp, apiVars,
                   scanVars, stats, registrations, admitted, stats_call>>

\* sock.settimeout(timeout): ValueError for a negative timeout
ProbeSetTimeout ==
    /\ probe.pc = "settimeout"
    /\ probe' = IF probe.timeout >= 0
                THEN [probe EXCEPT !.pc = "connect"]
                ELSE [probe EXCEPT !.pc = "exit", !.exc = "ValueError"]
    /\ UNCHANGED <<clock, lock, buckets, pc, path, client_ip, now, resp, apiVars,
                   scanVars, stats, registrations, admitted, stats_call>>

\* sock.connect((ip, port)): OverflowError for a port outside 0..65535,
\* socket.gaierror (an OSError) for text that is no host, else the network
\* decides
ProbeConnect(ok) ==
    /\ probe.pc = "connect"
    /\ probe' = IF probe.port \notin 0..65535
                THEN [probe EXCEPT !.pc = "exit", !.exc = "OverflowError"]
                ELSE IF ~ValidAddress(probe.ip) \/ ~ok
                THEN [probe EXCEPT !.pc = "exit", !.exc = "OSError"]
                ELSE [probe EXCEPT !.pc = "send", !.done = @ \cup {"connect"}]
    /\ UNCHANGED <<clock, lock, buckets, pc, path, client_ip, now, resp, apiVars,
                   scanVars, stats, registrations, admitted, stats_call>>

\* sock.send(b"\x00"), then `return True` leaves the with block
ProbeSend(ok) ==
    /\ probe.pc = "send"
    /\ probe' = IF ok
                THEN [probe EXCEPT !.pc = "exit", !.done = @ \cup {"send"}]
                ELSE [probe EXCEPT !.pc = "exit", !.exc = "OSError"]
    /\ UNCHANGED <<clock, lock, buckets, pc, path, client_ip, now, resp, apiVars,
                   scanVars, stats, registrations, admitted, stats_call>>

\* the socket is left open when the with block ends
SockLeftOpen(sock) == sock

\* socket.__exit__ closes the socket
SockAfterWith(sock) == "closed"

\* the end of the with block, on the way of `return True` or of an exception
ProbeExit ==
    /\ probe.pc = "exit"
    /\ probe' = IF probe.exc = ""
                THEN [probe EXCEPT !.pc = "returned", !.sock = SockAfterWith(@),
                                   !.result = "True"]
                ELSE [probe EXCEPT !.pc = "except", !.sock = SockAfterWith(@)]
    /\ UNCHANGED <<clock, lock, buckets, pc, path, client_ip, now, resp, apiVars,
                   scanVars, stats, registrations, admitted, stats_call>>

\* except Exception: return False
ProbeExcept ==
    /\ probe.pc = "except"
    /\ probe' = IF probe.exc \in {"OSError", "ValueError", "OverflowError"}
                THEN [probe EXCEPT !.pc = "returned", !.exc = "", !.result = "False"]
                ELSE [probe EXCEPT !.pc = "returned", !.raised = TRUE]
    /\ UNCHANGED <<clock, lock, buckets, pc, path, client_ip, now, resp, apiVars,
                   scanVars, stats, registrations, admitted, stats_call>>

\* the caller has the result
ProbeDone ==
    /\ probe.pc = "returned"
    /\ probe' = NoProbe
    /\ UNCHANGED <<clock, lock, buckets, pc, path, client_ip, now, resp, apiVars,
                   scanVars, stats, registrations, admitted, stats_call>>

\* the response has been sent; the slot is free for the next request
Complete(r) ==
    /\ pc[r] = "responded"
    /\ pc' = [pc EXCEPT ![r] = "idle"]
    /\ path' = [path EXCEPT ![r] = NoPath]
    /\ client_ip' = [client_ip EXCEPT ![r] = NoKey]
    /\ now' = [now EXCEPT ![r] = NoTime]
    /\ resp' = [resp EXCEPT ![r] = NoResp]
    /\ mode' = [mode EXCEPT ![r] = ""]
    /\ selected_ip' = [selected_ip EXCEPT ![r] = NoIp]
    /\ custom_ip' = [custom_ip EXCEPT ![r] = NoIp]
    /\ port' = [port EXCEPT ![r] = 0]
    /\ target_ip' = [target_ip EXCEPT ![r] = NoIp]
    /\ candidates' = [candidates EXCEPT ![r] = <<>>]
    /\ futures' = [futures EXCEPT ![r] = <<>>]
    /\ best_ip' = [best_ip EXCEPT ![r] = NoIp]
    /\ working' = [working EXCEPT ![r] = <<>>]
    /\ registrations' = [registrations EXCEPT ![r] = <<>>]
    /\ UNCHANGED <<clock, lock, buckets, stats, admitted, probe, stats_call>>

\* time passes: time.time() returns d more, up to the end of the model's time
TickWithin(d, end) ==
    /\ clock + d <= end
    /\ clock' = clock + d
    /\ UNCHANGED <<lock, buckets, pc, path, client_ip, now, resp, apiVars, scanVars, stats, registrations, admitted, probe, stats_call>>

\* time passes
Tick(d) ==
    /\ clock + d <= MaxTime
    /\ clock' = clock + d
    /\ UNCHANGED <<lock, buckets, pc, path, client_ip, now, resp, apiVars, scanVars, stats, registrations, admitted, probe, stats_call>>

\* the values of the history variable at the start, the log off or on
Histories == [on : BOOLEAN, log : {[k \in IdentityKeys |-> <<>>]}]

\* the state after the module is loaded, but for the stats file
InitServer ==
    /\ admitted \in Histories
    /\ probe = NoProbe
    /\ stats_call = [lock |-> 0, loaded |-> [r \in Threads |-> StatsObject(0)],
                     calls |-> 0]
    /\ clock = 0
    /\ lock = 0
    /\ buckets = [k \in IdentityKeys |-> <<>>]
    /\ pc = [r \in Threads |-> "idle"]
    /\ path = [r \in Threads |-> NoPath]
    /\ client_ip = [r \in Threads |-> NoKey]
    /\ now = [r \in Threads |-> NoTime]
    /\ resp = [r \in Threads |-> NoResp]
    /\ mode = [r \in Threads |-> ""]
    /\ selected_ip = [r \in Threads |-> <<>>]
    /\ custom_ip = [r \in Threads |-> <<>>]
    /\ port = [r \in Threads |-> 0]
    /\ target_ip = [r \in Threads |-> <<>>]
    /\ candidates = [r \in Threads |-> <<>>]
    /\ futures = [r \in Threads |-> <<>>]
    /\ best_ip = [r \in Threads |-> <<>>]
    /\ working = [r \in Threads |-> <<>>]
    /\ registrations = [r \in Threads |-> <<>>]
    /\ admitted.log = [k \in IdentityKeys |-> <<>>]

\* a fresh deployment: no stats file yet
Init == InitServer /\ stats = NoStatsFile /\ ~admitted.on

\* the same start with the history of admissions kept
InitRace == InitServer /\ stats = NoStatsFile /\ admitted.on

\* a start with any content of the stats file
InitApi == InitServer /\ stats \in StatsFiles /\ ~admitted.on

\* The steps of the requests in slots T, with request inputs drawn from
\* paths P, x-forwarded-for values F and peer addresses H, and clock steps D.
LimiterStep(T, P, F, H, D) ==
    \/ \E r \in T, p \in P, fwd \in F, host \in H : Receive(r, p, fwd, host)
    \/ \E r \in T : Acquire(r)
    \/ \E r \in T : Check(r)
    \/ \E r \in T : AppendNow(r)
    \/ \E r \in T : Dispatch(r)
    \/ \E r \in T : Complete(r)
    \/ \E d \in D : Tick(d)

\* One request at a time, two identity keys, the clock crossing the window.
Next == LimiterStep({1}, LimiterPaths, Forwardeds, Hosts, Ticks)

Spec == Init /\ [][Next]_vars

\* Two concurrent requests of one identity key.
NextConc == LimiterStep(Threads, {"/", "/favicon.ico"}, {<<>>}, {"A"},
                        {RATE_LIMIT_WINDOW_SECONDS})

SpecConc == Init /\ [][NextConc]_vars

\* Two concurrent requests of one identity key over two windows, with the
\* history of admissions.
NextRace ==
    \/ \E r \in Threads : Receive(r, "/", <<>>, "A")
    \/ \E r \in Threads : Acquire(r)
    \/ \E r \in Threads : Check(r)
    \/ \E r \in Threads : AppendNow(r)
    \/ \E r \in Threads : Dispatch(r)
    \/ \E r \in Threads : Complete(r)
    \/ TickWithin(RATE_LIMIT_WINDOW_SECONDS, MaxTimeRace)

SpecRace == InitRace /\ [][NextRace]_vars

\* Calls of probe_udp, one at a time, statement by statement.
NextProbe ==
    \/ \E ip \in ProbeIps, p \in ProbePorts, timeout \in ProbeTimeouts :
           ProbeCall(ip, p, timeout)
    \/ \E ok \in BOOLEAN : ProbeSocket(ok)
    \/ ProbeSetTimeout
    \/ \E ok \in BOOLEAN : ProbeConnect(ok)
    \/ \E ok \in BOOLEAN : ProbeSend(ok)
    \/ ProbeExit
    \/ ProbeExcept
    \/ ProbeDone

SpecProbe == Init /\ [][NextProbe]_vars

\* Concurrent requests to /api/generate that do not scan, with
\* increment_stats taken statement by statement.
NextCounter ==
    \/ \E r \in Threads : Receive(r, "/api/generate", <<>>, "A")
    \/ \E r \in Threads, form \in {f \in GenerateForms : f.mode # "smart" /\ f.port = 500} :
           ApiGenerateBegin(r, form)
    \/ \E r \in Threads, ok \in BOOLEAN : GenerateWarp(r, ok)
    \/ \E r \in Threads : StatsLoad(r)
    \/ \E r \in Threads : StatsSave(r)
    \/ \E r \in Threads : Complete(r)

SpecCounter == Init /\ [][NextCounter]_vars

\* The API routes with their scans, for one request at a time.
ApiPaths == {"/api/generate", "/api/scan"}

NextApi ==
    \/ \E p \in ApiPaths, host \in Hosts : Receive(1, p, <<>>, host)
    \/ Complete(1)
    \/ \E p \in Ports : ApiScanBegin(1, p)
    \/ \E form \in GenerateForms : ApiGenerateBegin(1, form)
    \/ \E sample \in get_random_warp_ips(SmartSampleCount) : SmartScanBegin(1, sample)
    \/ \E sample \in get_random_warp_ips(AllSampleCount) : ScanAllBegin(1, sample)
    \/ Submit(1)
    \/ StartProbe(1)
    \/ \E i \in 1..Len(futures[1]), ok \in BOOLEAN : FinishProbe(1, i, ok)
    \/ \E i \in 1..Len(futures[1]) : NextCompleted(1, i)
    \/ SmartScanReturn(1)
    \/ ScanAllReturn(1)
    \/ GenerateWarp(1, TRUE)
    \/ GenerateWarp(1, FALSE)
    \/ \E writable \in BOOLEAN : IncrementStats(1, writable)

SpecApi == Init /\ [][NextApi]_vars

\* /api/generate without scans, started with any content of the stats file.
NextStats ==
    \/ \E host \in Hosts : Receive(1, "/api/generate", <<>>, host)
    \/ Complete(1)
    \/ \E form \in {f \in GenerateForms : f.mode # "smart"} : ApiGenerateBegin(1, form)
    \/ GenerateWarp(1, TRUE)
    \/ GenerateWarp(1, FALSE)
    \/ \E writable \in BOOLEAN : IncrementStats(1, writable)

SpecStats == InitApi /\ [][NextStats]_vars

\* The two discovery calls, one request at a time, as the scheduler runs
\* them: smart_scan from /api/generate and scan_all_working from /api/scan.
NextDiscovery ==
    \/ \E p \in ApiPaths : Receive(1, p, <<>>, "A")
    \/ Complete(1)
    \/ \E p \in Ports : ApiScanBegin(1, p)
    \/ \E form \in {f \in GenerateForms : f.mode = "smart"} : ApiGenerateBegin(1, form)
    \/ \E sample \in get_random_warp_ips(SmartSampleCount) : SmartScanBegin(1, sample)
    \/ \E sample \in get_random_warp_ips(AllSampleCount) : ScanAllBegin(1, sample)
    \/ Submit(1)
    \/ StartProbe(1)
    \/ \E i \in 1..Len(futures[1]), ok \in BOOLEAN : FinishProbe(1, i, ok)
    \/ \E i \in 1..Len(futures[1]) : NextCompleted(1, i)
    \/ SmartScanReturn(1)
    \/ ScanAllReturn(1)
    \/ \E ok \in BOOLEAN : GenerateWarp(1, ok)
    \/ IncrementStats(1, TRUE)

\* The thread of the request goes on with its next statement (the list is
\* built, each submit returns, the loop takes a finished future, the with
\* block ends once the pool has shut down); a free worker of the pool takes
\* a queued item; a probe that runs returns, within its socket timeout.
\* Requests need not arrive and the rest of the handler is not constrained.
FairDiscovery ==
    /\ WF_vars(\E sample \in get_random_warp_ips(SmartSampleCount) :
                   SmartScanBegin(1, sample))
    /\ WF_vars(\E sample \in get_random_warp_ips(AllSampleCount) :
                   ScanAllBegin(1, sample))
    /\ WF_vars(Submit(1))
    /\ WF_vars(StartProbe(1))
    /\ WF_vars(\E i \in 1..Len(futures[1]), ok \in BOOLEAN : FinishProbe(1, i, ok))
    /\ WF_vars(\E i \in 1..Len(futures[1]) : NextCompleted(1, i))
    /\ WF_vars(SmartScanReturn(1))
    /\ WF_vars(ScanAllReturn(1))

SpecDiscovery == Init /\ [][NextDiscovery]_vars /\ FairDiscovery

\* one client: its bucket goes through every length up to the limit
LeakHosts == {"A"}

\* The limited page and /api/generate side by side, one request at a time:
\* the answers of the limiter and of the generate route in one state space.
NextLeak ==
    \/ \E p \in {"/", "/api/generate"}, host \in LeakHosts : Receive(1, p, <<>>, host)
    \/ Acquire(1)
    \/ Check(1)
    \/ AppendNow(1)
    \/ Dispatch(1)
    \/ Complete(1)
    \/ \E form \in {f \in GenerateForms : f.port \in 1..65535} : ApiGenerateBegin(1, form)
    \/ \E sample \in get_random_warp_ips(SmartSampleCount) : SmartScanBegin(1, sample)
    \/ Submit(1)
    \/ StartProbe(1)
    \/ \E i \in 1..Len(futures[1]), ok \in BOOLEAN : FinishProbe(1, i, ok)
    \/ \E i \in 1..Len(futures[1]) : NextCompleted(1, i)
    \/ SmartScanReturn(1)
    \/ GenerateWarp(1, TRUE)
    \/ GenerateWarp(1, FALSE)
    \/ \E writable \in BOOLEAN : IncrementStats(1, writable)

SpecLeak == Init /\ [][NextLeak]_vars

(***************************************************************************)
(* Properties of the rate limiter.                                         *)
(***************************************************************************)
\* the timestamps of bucket b that lie inside the window ending at t
Live(b, t) == {i \in 1..Len(b) : b[i] > t - RATE_LIMIT_WINDOW_SECONDS}

\* the limiter let request r through to call_next
Admitted(r) == pc[r] \in {"call_next", "responded"} /\ IsLimitedPath(path[r])
                   /\ resp[r].status # 429
\* the limiter answered request r itself
Rejected(r) == pc[r] = "responded" /\ resp[r].status = 429

\* C1 (window correctness, L = 15, W = 60), requests served one at a time: a
\* request is rejected only when 15 timestamps of its key lie inside the
\* window ending at its arrival, so the first 15 requests at time t on an
\* empty bucket are admitted and so is any request at or after t + 60; an
\* admitted request is one of at most 15 inside the window, so the 16th at
\* time t is rejected with status 429.
C1_WindowCorrectness ==
    \A r \in {1} :
        /\ Rejected(r) =>
              /\ Cardinality(Live(buckets[client_ip[r]], now[r])) >= RateLimit
              /\ resp[r].status = 429
        /\ Admitted(r) =>
              /\ Cardinality(Live(buckets[client_ip[r]], now[r])) <= RateLimit
              /\ buckets[client_ip[r]] # <<>>
              /\ buckets[client_ip[r]][Len(buckets[client_ip[r]])] = now[r]

\* C1 witness: the 16th request of a key at time 0 is rejected, the bucket
\* holding the 15 admitted at time 0.
C1_Witness ==
    /\ Rejected(1) /\ now[1] = 0
    /\ buckets[client_ip[1]] = [i \in 1..RateLimit |-> 0]

\* a request at time 60 is admitted once the entries of time 0 have left the
\* window, the entries of time 30 still counting
C1_WitnessReadmit ==
    /\ Admitted(1) /\ now[1] = 60
    /\ Len(buckets[client_ip[1]]) = RateLimit
    /\ buckets[client_ip[1]][1] = 30

\* C2 (per-key isolation): a bucket changes only in a step of a request of
\* that identity key, and the decision taken for a request is a function of
\* the bucket of its own key alone; so the requests of key A, also when they
\* exhaust A's quota, change neither B's bucket nor B's decisions.
C2_PerKeyIsolation ==
    [][ /\ \A k \in IdentityKeys :
              buckets'[k] # buckets[k] =>
                  \E r \in Threads : /\ client_ip[r] = k
                                     /\ pc[r] \in {"wait_lock", "append"}
                                     /\ pc'[r] # pc[r]
        /\ \A r \in Threads :
              pc[r] = "check" /\ pc'[r] # "check" =>
                  (pc'[r] = "responded" <=> Len(buckets[client_ip[r]]) >= RateLimit)
      ]_vars

\* C2 witness: a request of B is admitted while A's quota is exhausted.
C2_Witness ==
    /\ Admitted(1) /\ client_ip[1] = "B"
    /\ Len(buckets["A"]) = RateLimit
    /\ Len(buckets["B"]) = 1

\* C3 (atomic check-then-append): a request that passed the count test and
\* has not yet appended still sees fewer than 15 entries in its bucket, and
\* no other request is between its purge and its append; so of the
\* concurrent requests that find 14 live entries only one is admitted.
C3_AtomicCheckThenAppend ==
    \A r \in Threads :
        pc[r] = "append" =>
            /\ Len(buckets[client_ip[r]]) < RateLimit
            /\ lock = r
            /\ \A q \in Threads \ {r} : pc[q] \notin {"check", "append"}

\* C3 witness: one request holds the last free slot while another request of
\* the same key waits for the lock.
C3_Witness ==
    \E r, q \in Threads :
        /\ r # q
        /\ pc[r] = "append" /\ pc[q] = "wait_lock"
        /\ client_ip[r] = client_ip[q]
        /\ Len(buckets[client_ip[r]]) = RateLimit - 1

\* C5 as claimed: generation has a smaller limit than the status page, and
\* admitting a request of the status page leaves the quota of the
\* generation class of the same key as it was.
C5_ClassQuotaSeparate ==
    [][ \A r \in Threads :
            (pc[r] = "append" /\ pc'[r] = "call_next" /\ path[r] = "/") =>
                /\ LimitOf("/generate") < LimitOf("/")
                /\ Len(BucketOf(client_ip[r], "/generate"))' =
                       Len(BucketOf(client_ip[r], "/generate"))
      ]_vars

\* C6 as claimed: a rejection carries retryAfterSeconds = windowDuration.
C6_RejectedCarriesRetryAfter ==
    \A r \in Threads :
        Rejected(r) =>
            <<"retry-after", RATE_LIMIT_WINDOW_SECONDS>> \in resp[r].headers

(***************************************************************************)
(* Properties of the API routes and the scans.                             *)
(***************************************************************************)
\* the limiter counted request r: its timestamp is in the bucket of its key
RateChecked(r) ==
    /\ now[r] # NoTime
    /\ client_ip[r] \in IdentityKeys
    /\ \E i \in 1..Len(buckets[client_ip[r]]) : buckets[client_ip[r]][i] = now[r]

\* C4 as claimed: a request to /api/generate or /api/scan has a probe in
\* flight, or has called the Credential Issuer, only after the limiter
\* counted it.
C4_RateCheckedBeforeWork ==
    \A r \in Threads :
        (Running(r) # {} \/ pc[r] = "increment_stats") => RateChecked(r)

\* smart_scan of request r has returned into api_generate
SmartReturned(r) ==
    /\ mode[r] = "smart"
    /\ pc[r] \in {"generate_warp", "increment_stats", "responded"}

\* the probes of request r that reported reachable
Reachable(r) == {i \in Finished(r) : futures[r][i].result}

\* C7 (race to first success): when smart_scan has returned and at least one
\* of its probes reported reachable, the address returned is that of a
\* candidate whose probe reported reachable, whatever the order in which
\* the probes completed and were handed out.
C7_ReturnsReachable ==
    \A r \in Threads :
        (SmartReturned(r) /\ Reachable(r) # {}) =>
            \E i \in Reachable(r) : target_ip[r] = candidates[r][i]

\* C7 witness: the only reachable candidate is the last of the list and it is
\* the one returned.
C7_Witness ==
    /\ SmartReturned(1)
    /\ Reachable(1) = {Len(candidates[1])}
    /\ target_ip[1] = candidates[1][Len(candidates[1])]
    /\ \A i \in 1..(Len(candidates[1]) - 1) : candidates[1][i] # target_ip[1]

\* C8 (total unreachability fallback): when smart_scan has returned and no
\* probe reported reachable, it returned KNOWN_WARP_IPS[0]; in every case it
\* returned an address, never an empty value.
C8_FallbackWhenUnreachable ==
    \A r \in Threads :
        SmartReturned(r) =>
            /\ Reachable(r) = {} => target_ip[r] = KNOWN_WARP_IPS[1]
            /\ target_ip[r] # NoIp
            /\ ValidAddress(target_ip[r])

\* C8 witness: every probe to a valid port failed and the fallback came back.
C8_Witness ==
    /\ SmartReturned(1) /\ pc[1] = "generate_warp"
    /\ port[1] \in 0..65535
    /\ Finished(1) = 1..Len(candidates[1])
    /\ Reachable(1) = {}
    /\ target_ip[1] = KNOWN_WARP_IPS[1]

\* C9 as claimed: once a probe of smart_scan has reported reachable and the
\* loop has been left, the return is enabled, whatever the other probes do.
C9_ReturnsWithoutWaiting ==
    \A r \in Threads :
        (pc[r] = "shutdown" /\ IsSmart(r) /\ best_ip[r] # NoIp) =>
            ENABLED SmartScanReturn(r)

\* C10 (request-scoped concurrency): once a scan has returned to its caller,
\* and from then on until the response is sent, none of the probes it
\* submitted is queued or running.
C10_NoProbeOutlivesScan ==
    \A r \in Threads :
        (futures[r] # <<>> /\ pc[r] \notin {"submit", "as_completed", "shutdown"}) =>
            Pending(r) = {} /\ Running(r) = {}

\* C10 witness: smart_scan left its loop on a success before every future
\* was handed out, and has returned with all of them finished.
C10_Witness ==
    /\ SmartReturned(1) /\ pc[1] = "generate_warp"
    /\ \E i \in 1..Len(futures[1]) : ~futures[1][i].yielded
    /\ Finished(1) = 1..Len(candidates[1])

\* scan_all_working of request r has returned and api_scan has answered
ScanAnswered(r) == pc[r] = "responded" /\ resp[r].body = "ips"

\* the elements of a sequence
Range(s) == {s[i] : i \in 1..Len(s)}

\* C11 (collect all successes): when scan_all_working has returned, every
\* probe it launched has completed, and the returned list holds an address
\* exactly when a probe of that candidate reported reachable, once for each
\* such probe, in whatever order the probes completed.
C11_CollectsAllSuccesses ==
    \A r \in Threads :
        ScanAnswered(r) =>
            /\ Len(futures[r]) = Len(candidates[r])
            /\ Finished(r) = 1..Len(futures[r])
            /\ Range(resp[r].payload) = {candidates[r][i] : i \in Reachable(r)}
            /\ Len(resp[r].payload) = Cardinality(Reachable(r))

\* C11 witness: the third and the first candidate were reachable and came
\* back in that order; the second was probed, failed and is not returned.
C11_Witness ==
    /\ ScanAnswered(1)
    /\ Reachable(1) = {1, 3}
    /\ 2 \in Finished(1)
    /\ resp[1].payload = <<candidates[1][3], candidates[1][1]>>
    /\ candidates[1][2] \notin Range(resp[1].payload)

\* C12 (concurrency bound): at every moment of a scan the number of probes
\* in flight is at most the max_workers of the pool of that scan (SmartWorkers
\* in smart_scan, AllWorkers in scan_all_working) and at most the number of
\* candidates.
C12_ConcurrencyBound ==
    \A r \in Threads :
        /\ Cardinality(Running(r)) <= (IF path[r] = "/api/generate"
                                       THEN SmartWorkers ELSE AllWorkers)
        /\ Cardinality(Running(r)) <= Len(candidates[r])

\* C12 witness: the pool of scan_all_working is full, a probe is still
\* queued behind it and one has already finished.
C12_Witness ==
    /\ path[1] = "/api/scan"
    /\ Cardinality(Running(1)) = AllWorkers
    /\ Pending(1) # {}
    /\ Finished(1) # {}

\* request r is past the choice of its target: the Credential Issuer is
\* about to be called or has been called
Resolved(r) == pc[r] \in {"generate_warp", "increment_stats"} \/ registrations[r] # <<>>

\* C13 as claimed: in mode select a request goes on to the Credential
\* Issuer only with a declared address that is one of the offered ones, and
\* the target is the declared address and no other.
C13_SelectionValidated ==
    \A r \in Threads :
        (mode[r] = "select" /\ Resolved(r)) =>
            /\ selected_ip[r] \in Offered
            /\ target_ip[r] = selected_ip[r]

\* C14 as claimed: in mode auto the candidates have been classified when the
\* target is resolved, and the target is the first candidate that is
\* reachable, or the first candidate when none is.
C14_AutoPrefersFirstReachable ==
    \A r \in Threads :
        (mode[r] = "auto" /\ Resolved(r)) =>
            /\ candidates[r] # <<>>
            /\ Finished(r) = 1..Len(candidates[r])
            /\ target_ip[r] = IF Reachable(r) # {}
                              THEN candidates[r][Min(Reachable(r))]
                              ELSE candidates[r][1]

\* C14 as amended: in mode auto the target is the first address of the static
\* list, 162.159.192.1, and it is what the configuration is rendered for;
\* no candidate list is built and no probe is launched.
C14_AutoTakesFirstKnown ==
    \A r \in Threads :
        (mode[r] = "auto" /\ Resolved(r)) =>
            /\ target_ip[r] = Addr(1, 1)
            /\ candidates[r] = <<>> /\ futures[r] = <<>>
            /\ resp[r].body = "conf" => resp[r].payload = <<Addr(1, 1)>>

\* C14 witness: a request in mode auto was answered with a configuration for
\* the first known address.
C14_Witness ==
    /\ mode[1] = "auto"
    /\ pc[1] = "responded"
    /\ registrations[1] = <<TRUE>>
    /\ resp[1].body = "conf"
    /\ resp[1].payload = <<KNOWN_WARP_IPS[1]>>
    /\ futures[1] = <<>>

\* s is the text of one address and nothing else
AddressLiteral(s) == Len(s) = 1 /\ s[1] \notin {SP, BAD}

\* C15 (custom selection): after every step, a request in mode custom whose
\* address is empty after trimming or is no address literal has been
\* answered with an error, the Credential Issuer was not called for it and
\* the step left the generation counter alone; a request whose trimmed
\* address is a literal has exactly that literal as its target, and no
\* candidate list or probe exists for it.
C15_CustomSelection ==
    [][\A r \in Threads :
          mode'[r] = "custom" =>
              IF \E k \in 1..Len(custom_ip'[r]) :
                     /\ AddressLiteral(<<custom_ip'[r][k]>>)
                     /\ \A j \in 1..Len(custom_ip'[r]) : j # k => custom_ip'[r][j] = SP
              THEN /\ AddressLiteral(target_ip'[r])
                   /\ \E k \in 1..Len(custom_ip'[r]) : target_ip'[r] = <<custom_ip'[r][k]>>
                   /\ pc'[r] \in {"generate_warp", "increment_stats", "responded"}
                   /\ candidates'[r] = <<>> /\ futures'[r] = <<>>
                   /\ resp'[r].body = "conf" => resp'[r].payload = <<target_ip'[r]>>
              ELSE /\ pc'[r] = "responded"
                   /\ resp'[r].body = "error"
                   /\ registrations'[r] = <<>>
                   /\ stats' = stats]_vars

\* C15 witness: text that is no address was submitted in mode custom and
\* refused without a call of the Credential Issuer.
C15_Witness ==
    /\ mode[1] = "custom"
    /\ custom_ip[1] = <<BAD>>
    /\ pc[1] = "responded"
    /\ resp[1].body = "error"
    /\ registrations[1] = <<>>

\* C15, second witness: an address outside the WARP blocks, with white space
\* around it, was submitted in mode custom and the configuration was
\* rendered for exactly that address without a probe.
C15_WitnessLiteral ==
    /\ mode[1] = "custom"
    /\ custom_ip[1] = <<SP, <<0, 9>>, SP>>
    /\ pc[1] = "responded"
    /\ resp[1].body = "conf"
    /\ resp[1].payload = <<Addr(0, 9)>>
    /\ futures[1] = <<>>

\* C16 as claimed: a generate request goes on to selection, discovery or
\* issuance only with a port in 1..65535.
C16_PortValidated ==
    \A r \in Threads :
        (path[r] = "/api/generate"
         /\ (pc[r] \in {"smart_scan", "submit", "as_completed", "shutdown"} \/ Resolved(r))) =>
            port[r] \in 1..65535

\* C17 as claimed: a generate request whose issuance succeeded is answered
\* with the generated configuration, whatever the stats file holds and
\* whether or not it can be written.
C17_StatsFailureIsolated ==
    \A r \in Threads :
        (registrations[r] = <<TRUE>> /\ pc[r] = "responded") =>
            resp[r].body = "conf"

\* C18 (issuer failure is fatal and not retried): after every step, a
\* request has called the Credential Issuer at most once; if that call
\* failed, the request has been answered with an error and the step left
\* the stats alone.
C18_IssuerFailureFatal ==
    [][\A r \in Threads :
          /\ Len(registrations'[r]) <= 1
          /\ registrations'[r] = <<FALSE>> =>
                 /\ pc'[r] = "responded"
                 /\ resp'[r].body = "error"
                 /\ stats' = stats]_vars

\* C18 witness: the one call of the Credential Issuer failed, the request
\* was answered with an error and no generation is recorded.
C18_Witness ==
    /\ registrations[1] = <<FALSE>>
    /\ pc[1] = "responded"
    /\ resp[1].body = "error"
    /\ stats = NoStatsFile

\* the candidate list of the scan of request r has been built
CandidatesBuilt(r) == pc[r] \in {"submit", "as_completed", "shutdown"}

\* C19 as claimed: the candidate list of a scan holds no address twice, so
\* no address is probed a second time.
C19_NoDuplicateCandidates ==
    \A r \in Threads :
        CandidatesBuilt(r) =>
            \A i, j \in 1..Len(candidates[r]) :
                i # j => candidates[r][i] # candidates[r][j]

\* C20 as claimed: the candidate list of every scan, smart_scan and
\* scan_all_working alike, holds every address of KNOWN_WARP_IPS.
C20_StaticListIncluded ==
    \A r \in Threads :
        CandidatesBuilt(r) =>
            \A k \in 1..Len(KNOWN_WARP_IPS) :
                KNOWN_WARP_IPS[k] \in Range(candidates[r])

\* C20 as amended: the candidate list of scan_all_working holds every
\* address of KNOWN_WARP_IPS and that of smart_scan holds the first three.
C20_StaticListOrItsHead ==
    \A r \in Threads :
        CandidatesBuilt(r) =>
            \A k \in 1..Len(KNOWN_WARP_IPS) :
                (path[r] = "/api/scan" \/ k <= 3) =>
                    KNOWN_WARP_IPS[k] \in Range(candidates[r])

\* C20 witness: smart_scan is probing a list with the first three known
\* addresses and without the fourth.
C20_Witness ==
    /\ path[1] = "/api/generate"
    /\ Running(1) # {}
    /\ \A k \in 1..3 : KNOWN_WARP_IPS[k] \in Range(candidates[1])
    /\ KNOWN_WARP_IPS[4] \notin Range(candidates[1])

(***************************************************************************)
(* Properties of error answers, buckets under concurrency, the prober, the *)
(* sampler and the generation counter.                                     *)
(***************************************************************************)
\* the candidates of request r whose probes failed
Failed(r) == {i \in Finished(r) : ~futures[r][i].result}

\* C21 (error answers leak nothing): a rejection of the limiter is the same
\* fixed answer whatever the bucket holds and whoever asks, and an error
\* answer of /api/generate quotes nothing but the text the caller submitted
\* as custom_ip: no bucket content and no address of a candidate whose
\* probe failed.
C21_ErrorsLeakNothing ==
    \A r \in Threads :
        /\ Rejected(r) =>
               resp[r] = [status |-> 429, body |-> "Too many requests", headers |-> {},
                          payload |-> <<>>, msg |-> ""]
        /\ resp[r].body = "error" =>
               /\ Range(resp[r].payload) \subseteq {Strip(custom_ip[r])}
               /\ \A i \in Failed(r) : candidates[r][i] \notin Range(resp[r].payload)
               /\ resp[r].headers = {}

\* C21 witness: smart_scan had probes that failed, the registration failed
\* after it, and the error answer names none of the candidates; the bucket
\* of the client is not empty at that moment.
C21_Witness ==
    /\ mode[1] = "smart"
    /\ pc[1] = "responded"
    /\ resp[1].body = "error"
    /\ Failed(1) # {}
    /\ resp[1].payload = <<>>
    /\ buckets["A"] # <<>>

\* C21, second witness: the limiter rejected a request with the fixed answer.
C21_WitnessRejected ==
    /\ Rejected(1)
    /\ Len(buckets[client_ip[1]]) = RateLimit
    /\ resp[1].body = "Too many requests"

\* request r is inside `with _rate_limit_lock:` after the purge
InAccess(r) == pc[r] \in {"check", "append"}

\* b without its first n entries
Drop(b, n) == SubSeq(b, n + 1, Len(b))

AdmittedWithin(k, t) ==
    {j \in 1..Len(admitted.log[k]) :
        /\ admitted.log[k][j] > t - RATE_LIMIT_WINDOW_SECONDS
        /\ admitted.log[k][j] <= t}

C24_RejectionConsumesNothing ==
    [][\A r \in Threads :
          /\ (pc[r] = "check" /\ pc'[r] # "check"
                  /\ Len(buckets[client_ip[r]]) >= RateLimit) =>
                 /\ pc'[r] = "responded"
                 /\ resp'[r].status = 429
                 /\ buckets' = buckets
                 /\ lock' = 0
          /\ (Rejected(r) /\ pc'[r] # pc[r]) =>
                 /\ pc'[r] = "idle"
                 /\ buckets' = buckets]_vars

\* C24 witness: a request at time 30 was rejected and the bucket still holds
\* the 15 timestamps of time 0 and nothing of time 30, so that the key is
\* admitted again at time 60 as before.
C24_Witness ==
    /\ Rejected(1) /\ now[1] = 30
    /\ buckets[client_ip[1]] = [i \in 1..RateLimit |-> 0]
    /\ clock = 30

\* C25 (prober safety): when probe_udp has returned, no exception has left
\* it, whatever the address, the port and the timeout were; it returned True
\* exactly when socket(), connect() and send() all returned normally, and
\* False otherwise, and never True for a port outside 0..65535; and the
\* socket it opened, if any, is closed.
C25_ProberSafety ==
    probe.pc = "returned" =>
        /\ ~probe.raised
        /\ probe.result \in {"True", "False"}
        /\ probe.result = "True" <=> probe.done = {"socket", "connect", "send"}
        /\ (probe.result = "True") \in probe_udp(probe.ip, probe.port)
        /\ probe.sock # "open"
        /\ "socket" \in probe.done <=> probe.sock = "closed"

\* C25 witness: a call with a port above 65535 opened a socket, failed in
\* connect, returned False and left the socket closed.
C25_Witness ==
    /\ probe.pc = "returned"
    /\ probe.port = 65536
    /\ probe.done = {"socket"}
    /\ probe.result = "False"
    /\ probe.sock = "closed"

\* the part of the candidate list of request r that the sampler returned
Sampled(r) ==
    SubSeq(candidates[r],
           (IF path[r] = "/api/generate" THEN 3 ELSE Len(KNOWN_WARP_IPS)) + 1,
           Len(candidates[r]))

\* C26 (sampled addresses are valid hosts): get_random_warp_ips returned
\* exactly as many addresses as it was asked for, and each of them lies in
\* one of the seven blocks of WARP_CIDRS and is neither the network address
\* (offset 0) nor the broadcast address (offset 255) of its block.
C26_SampledAreHosts ==
    \A r \in Threads :
        CandidatesBuilt(r) =>
            /\ Len(Sampled(r)) = (IF path[r] = "/api/generate"
                                  THEN SmartSampleCount ELSE AllSampleCount)
            /\ \A i \in 1..Len(Sampled(r)) :
                   /\ Len(Sampled(r)[i]) = 1
                   /\ Sampled(r)[i][1][1] \in 1..7
                   /\ Sampled(r)[i][1][2] \in 0..255
                   /\ Sampled(r)[i][1][2] # 0
                   /\ Sampled(r)[i][1][2] # 255

\* C26 witness: the sampler drew the highest host address of a block, offset
\* 254, and the scan is probing it.
C26_Witness ==
    /\ path[1] = "/api/generate"
    /\ pc[1] = "as_completed"
    /\ Len(Sampled(1)) >= 1
    /\ Sampled(1)[Len(Sampled(1))] = Addr(3, 254)

\* C28 (no lost updates): whatever the interleaving of the requests, the
\* total_generations of the stats file is the number of increment_stats
\* calls that have returned, the file being readable and writable.
C28_NoLostUpdate ==
    /\ stats.total = stats_call.calls
    /\ stats_call.calls > 0 => stats.kind = "object"

\* C28 witness: two requests were in api_generate at the same time, both
\* have been answered with a configuration and the total is 2.
C28_Witness ==
    /\ \E r, q \in Threads :
           /\ r # q
           /\ pc[r] = "responded" /\ resp[r].body = "conf"
           /\ pc[q] = "responded" /\ resp[q].body = "conf"
    /\ stats_call.calls = 2
    /\ stats = StatsObject(2)

\* C29 (the counter only counts successful issuances): a step changes the
\* stats file only as the increment of a request whose call of generate_warp
\* has returned successfully, it adds exactly one and answers that request,
\* so a request increments at most once; a step that answers a request with
\* an error leaves the stats file as it was.
C29_CountsOnlyIssued ==
    [][/\ stats' # stats =>
              \E r \in Threads :
                  /\ registrations[r] = <<TRUE>>
                  /\ pc[r] = "save_stats"
                  /\ pc'[r] = "responded"
                  /\ resp'[r].body = "conf"
                  /\ stats'.total = stats.total + 1
       /\ \A r \in Threads :
              (pc[r] # "responded" /\ pc'[r] = "responded" /\ resp'[r].body = "error") =>
                  stats' = stats]_vars

\* C29 witness: of two requests in api_generate at the same time, the one
\* whose registration succeeded was counted and the one whose registration
\* failed was answered with an error; the total is 1.
C29_Witness ==
    /\ \E r, q \in Threads :
           /\ r # q
           /\ pc[r] = "responded" /\ resp[r].body = "conf"
           /\ registrations[r] = <<TRUE>>
           /\ pc[q] = "responded" /\ resp[q].body = "error"
           /\ registrations[q] = <<FALSE>>
    /\ stats = StatsObject(1)

\* request r is inside smart_scan or scan_all_working
InDiscovery(r) ==
    pc[r] \in {"smart_scan", "scan_all", "submit", "as_completed", "shutdown"}

\* C30 (discovery terminates): a request that is inside smart_scan or
\* scan_all_working eventually is not: the call has returned to its route,
\* whatever the order in which the probes start and complete.
C30_DiscoveryTerminates ==
    InDiscovery(1) ~> ~InDiscovery(1)

\* C30 witness: scan_all_working has returned after every probe of its
\* candidate list failed and the loop took every future; api_scan answered
\* with an empty list.
C30_Witness ==
    /\ ScanAnswered(1)
    /\ Len(candidates[1]) >= 2
    /\ Len(futures[1]) = Len(candidates[1])
    /\ \A i \in 1..Len(futures[1]) :
           futures[1][i].state = "finished" /\ futures[1][i].yielded
    /\ resp[1].payload = <<>>

\* C30 witness: smart_scan has returned from its break while a probe that
\* was still queued at the break has run to its end without being taken.
C30_WitnessBreak ==
    /\ path[1] = "/api/generate"
    /\ pc[1] = "generate_warp"
    /\ best_ip[1] = candidates[1][1]
    /\ \A i \in 2..Len(futures[1]) :
           futures[1][i].state = "finished" /\ ~futures[1][i].yielded

\* request r has been dispatched by api_generate
Dispatched(r) == path[r] = "/api/generate" /\ mode[r] # ""

\* C31 (mode dispatch is total): a generate request whose mode is none of
\* auto, smart and select is treated as custom: if its custom address is
\* one literal with nothing but white space around it, that literal is the
\* target, and otherwise the request has been answered with an error and
\* the Credential Issuer was not called.  Only a request in mode smart has a
\* candidate list or probes.  Whenever the Credential Issuer is about to be
\* called or has been called, the target address is not empty.
C31_DispatchTotal ==
    \A r \in Threads :
        Dispatched(r) =>
            /\ mode[r] \notin {"auto", "smart", "select"} =>
                   IF \E k \in 1..Len(custom_ip[r]) :
                          /\ AddressLiteral(<<custom_ip[r][k]>>)
                          /\ \A j \in 1..Len(custom_ip[r]) :
                                 j # k => custom_ip[r][j] = SP
                   THEN /\ AddressLiteral(target_ip[r])
                        /\ \E k \in 1..Len(custom_ip[r]) :
                               target_ip[r] = <<custom_ip[r][k]>>
                        /\ pc[r] \in {"generate_warp", "increment_stats", "responded"}
                   ELSE /\ pc[r] = "responded"
                        /\ resp[r].body = "error"
                        /\ registrations[r] = <<>>
            /\ (candidates[r] # <<>> \/ futures[r] # <<>>
                    \/ pc[r] \in {"smart_scan", "submit", "as_completed", "shutdown"}) =>
                   mode[r] = "smart"
            /\ (pc[r] = "generate_warp" \/ registrations[r] # <<>>) =>
                   target_ip[r] # NoIp

\* C31 witness: a mode the handler does not know, with white space as the
\* custom address, was refused for the missing address.
C31_Witness ==
    /\ path[1] = "/api/generate"
    /\ mode[1] = "manual"
    /\ custom_ip[1] = <<SP>>
    /\ pc[1] = "responded"
    /\ resp[1].body = "error"
    /\ resp[1].msg = "Custom IP required"
    /\ registrations[1] = <<>>

\* C31, second witness: the same mode with an address literal went to the
\* Credential Issuer with that literal, without a probe.
C31_WitnessIssued ==
    /\ path[1] = "/api/generate"
    /\ mode[1] = "manual"
    /\ registrations[1] = <<TRUE>>
    /\ target_ip[1] = Addr(0, 9)
    /\ futures[1] = <<>>

\* C31, third witness: the scan of a request in mode smart found nothing
\* and the Credential Issuer was called with the first known address.
C31_WitnessSmart ==
    /\ mode[1] = "smart"
    /\ best_ip[1] = NoIp
    /\ registrations[1] # <<>>
    /\ target_ip[1] = KNOWN_WARP_IPS[1]

====
